---- MODULE Spec2Model ----
(***************************************************************************)
(* Facial-attendance backend: the attendance ledger and policy             *)
(* (services/asistencia_service.py), the hosted store helper               *)
(* (services/supabase_service.py), the identity store and matcher          *)
(* (services/face_recognition_service.py) and the HTTP handlers            *)
(* (api/server.py).                                                        *)
(*                                                                         *)
(* Conventions of the model                                                *)
(*  - reloj is the wall clock (datetime.now()) in whole seconds since      *)
(*    00:00:00 of day 0.  strftime("%Y-%m-%d") is Fecha (the day index),    *)
(*    strftime("%H:%M:%S") is Hora (the second of the day); strptime of an  *)
(*    hora string gives back that second of the day.                       *)
(*  - a Python dict is a function whose DOMAIN is its key set; the ordered  *)
(*    dict personas_registradas is a sequence of entries, in insertion     *)
(*    order.                                                               *)
(*  - an embedding is a vector of integers in tenths, so a dot product is  *)
(*    in hundredths: the threshold 0.4 is 40.                              *)
(*  - an image is the sequence of faces the external detector              *)
(*    (FaceAnalysis.get) finds in it; a face carries bbox, det_score        *)
(*    (hundredths), normed_embedding (here: embedding), age and sex.        *)
(*  - a store call that can raise takes a flag saying whether it does.     *)
(***************************************************************************)
EXTENDS Integers, Sequences, FiniteSets, TLC

VARIABLES
    reloj,                \* datetime.now(), seconds since day 0 00:00:00
    usa_supabase,         \* AsistenciaService.usa_supabase / supabase.enabled
    asistencia_cache,     \* AsistenciaService.asistencia_cache (local mode)
    archivo_asistencia,   \* content of backend/data/asistencia.json
    asistencias,          \* rows of the hosted table "asistencias", as inserted
    personas_registradas, \* FaceRecognitionService.personas_registradas
    personas_pkl,         \* content of backend/data/personas_registradas.pkl
    personas_tabla,       \* rows of the hosted table "personas", keyed by nombre
    fotos,                \* photo files on disk / objects in the bucket
    fallas,               \* store calls that have raised so far
    peticiones,           \* the handler threads: position and local variables
    respuesta             \* what the last call returned to its caller

vars == <<reloj, usa_supabase, asistencia_cache, archivo_asistencia, asistencias,
          personas_registradas, personas_pkl, personas_tabla, fotos, fallas,
          peticiones, respuesta>>

-----------------------------------------------------------------------------
(* Program constants *)

SegundosPorDia == 86400
TiempoEsperaDefecto == 10
UmbralDefecto == 40

(* Bounds of the model *)

MaxTicks == 3
MaxRostros == 2
MaxFallas == 1
MaxEventosDia == 3
MaxTicksPersonas == 1
MaxPersonas == 2
MaxRostrosDetectar == 1
MaxTicksConcurrente == 1

Inicio == SegundosPorDia - 15
Limite == Inicio + 5 * MaxTicks
LimitePersonas == Inicio + 5 * MaxTicksPersonas
LimiteConcurrente == Inicio + 5 * MaxTicksConcurrente

Nombres == {"Ana", "Bob"}
Desconocido == "Desconocido"
NombreNone == "<None>"
TiemposEspera == {0, TiempoEsperaDefecto, 15}

-----------------------------------------------------------------------------
(* Python helpers *)

DictVacio == [k \in {} |-> <<>>]

Get(d, k, defecto) == IF k \in DOMAIN d THEN d[k] ELSE defecto

Put(d, k, v) == [x \in (DOMAIN d) \cup {k} |-> IF x = k THEN v ELSE d[x]]

Fecha(t) == t \div SegundosPorDia

Hora(t) == t % SegundosPorDia

Ninguno == [tipo |-> "None", hora |-> 0]

(* The threads of the development server (app.run, server.py:282) that run  *)
(* the attendance handler, and a thread with no request.                    *)

Hilos == {1, 2}

Reposo ==
    [pc |-> "libre", nombres |-> <<>>, i |-> 1, tipo |-> "None", fecha |-> 0,
     hora |-> 0, registros |-> <<>>]

-----------------------------------------------------------------------------
(* Faces and embeddings *)

Caras ==
    { [bbox |-> <<10, 20, 110, 140>>, det_score |-> 95,
       embedding |-> <<10, 0>>,  age |-> 30, sex |-> "M"],
      [bbox |-> <<10, 20, 110, 140>>, det_score |-> 95,
       embedding |-> <<0, 10>>,  age |-> 25, sex |-> "F"],
      [bbox |-> <<10, 20, 110, 140>>, det_score |-> 95,
       embedding |-> <<6, 8>>,   age |-> 40, sex |-> "M"],
      [bbox |-> <<10, 20, 110, 140>>, det_score |-> 95,
       embedding |-> <<-10, 0>>, age |-> 50, sex |-> "F"] }

RECURSIVE SeqsHasta(_, _)
SeqsHasta(S, n) ==
    IF n = 0 THEN {<<>>}
    ELSE LET cortas == SeqsHasta(S, n - 1)
         IN  cortas \cup {Append(s, x) : s \in {c \in cortas : Len(c) = n - 1}, x \in S}

CarasAsistencia == {c \in Caras : c.embedding # <<6, 8>>}

Imagenes == SeqsHasta(CarasAsistencia, MaxRostros)

RECURSIVE Dot(_, _)
Dot(a, b) ==
    IF a = <<>> \/ b = <<>> THEN 0
    ELSE Head(a) * Head(b) + Dot(Tail(a), Tail(b))

RECURSIVE reconocer_bucle_UltimoGana(_, _, _, _, _)
reconocer_bucle_UltimoGana(personas, i, embedding, mejor_match, mejor_similitud) ==
    IF i > Len(personas) THEN [nombre |-> mejor_match, similitud |-> mejor_similitud]
    ELSE LET registrado == personas[i].embedding
             similitud == Dot(embedding, registrado)
         IN  IF Len(registrado) = 0
             THEN reconocer_bucle_UltimoGana(personas, i + 1, embedding, mejor_match,
                                             mejor_similitud)
             ELSE IF similitud >= mejor_similitud
             THEN reconocer_bucle_UltimoGana(personas, i + 1, embedding,
                                             personas[i].nombre, similitud)
             ELSE reconocer_bucle_UltimoGana(personas, i + 1, embedding, mejor_match,
                                             mejor_similitud)

RECURSIVE reconocer_bucle(_, _, _, _, _)
reconocer_bucle(personas, i, embedding, mejor_match, mejor_similitud) ==
    IF i > Len(personas) THEN [nombre |-> mejor_match, similitud |-> mejor_similitud]
    ELSE LET registrado == personas[i].embedding
             similitud == Dot(embedding, registrado)
         IN  IF Len(registrado) = 0
             THEN reconocer_bucle(personas, i + 1, embedding, mejor_match, mejor_similitud)
             ELSE IF similitud > mejor_similitud
             THEN reconocer_bucle(personas, i + 1, embedding, personas[i].nombre, similitud)
             ELSE reconocer_bucle(personas, i + 1, embedding, mejor_match, mejor_similitud)

_reconocer_persona(personas, embedding, umbral) ==
    LET mejor == reconocer_bucle(personas, 1, embedding, NombreNone, 0)
    IN  IF mejor.similitud >= umbral THEN mejor
        ELSE [nombre |-> NombreNone, similitud |-> 0]

detectar_rostros(personas, imagen) ==
    [i \in 1..Len(imagen) |->
        LET face == imagen[i]
            r == _reconocer_persona(personas, face.embedding, UmbralDefecto)
        IN  [bbox |-> face.bbox,
             edad |-> face.age,
             genero |-> IF face.sex = "M" THEN "Masculino" ELSE "Femenino",
             confianza |-> face.det_score,
             embedding |-> face.embedding,
             nombre |-> IF r.nombre = NombreNone THEN Desconocido ELSE r.nombre,
             similitud |-> r.similitud]]

-----------------------------------------------------------------------------
(* Photo files: backend/data/registros/<nombre with _ for spaces>.jpg on    *)
(* disk, <prefix>/<nombre stripped, lower-cased, _ for spaces>.jpg in the   *)
(* bucket.                                                                 *)

Minusculas == [Ana |-> "ana", Bob |-> "bob", Eva |-> "eva"]

_slugify(nombre) == Minusculas[nombre]

foto_local(nombre) == [carpeta |-> "backend/data/registros", archivo |-> nombre]

foto_bucket(nombre) == [carpeta |-> "personas", archivo |-> _slugify(nombre)]

foto_de(hospedado, nombre) == IF hospedado THEN foto_bucket(nombre) ELSE foto_local(nombre)

(* The foto_url column of a row of "personas": the public URL of the        *)
(* object, which its path determines, or null.                              *)

SinFoto == [carpeta |-> "", archivo |-> ""]

_subir_imagen(nombre, falla) == IF falla THEN SinFoto ELSE foto_bucket(nombre)

-----------------------------------------------------------------------------
(* Attendance policy and ledger *)

_evaluar_registro_SinModulo(ultimo, tiempo_espera, t_ahora, t_hoy) ==
    IF ultimo = Ninguno THEN [puede |-> TRUE, tipo |-> "entrada"]
    ELSE LET ultimo_dt == Fecha(t_hoy) * SegundosPorDia + ultimo.hora
             diff_segundos == t_ahora - ultimo_dt
         IN  IF diff_segundos < tiempo_espera
             THEN [puede |-> FALSE, tipo |-> "None"]
             ELSE [puede |-> TRUE,
                   tipo |-> IF ultimo.tipo = "entrada" THEN "salida" ELSE "entrada"]

_evaluar_registro(ultimo, tiempo_espera, t_ahora, t_hoy) ==
    IF ultimo = Ninguno THEN [puede |-> TRUE, tipo |-> "entrada"]
    ELSE LET ultimo_dt == Fecha(t_hoy) * SegundosPorDia + ultimo.hora
             diff_segundos == (t_ahora - ultimo_dt) % SegundosPorDia
         IN  IF diff_segundos < tiempo_espera
             THEN [puede |-> FALSE, tipo |-> "None"]
             ELSE [puede |-> TRUE,
                   tipo |-> IF ultimo.tipo = "entrada" THEN "salida" ELSE "entrada"]

FilasDe(tabla, nombre, fecha) ==
    LET Es(r) == r.persona_nombre = nombre /\ r.fecha = fecha
    IN  SelectSeq(tabla, Es)

obtener_ultimo_registro_IgnoraFalla(tabla, nombre, fecha, falla) ==
    LET data == FilasDe(tabla, nombre, fecha)
        idx == 1..Len(data)
    IN  IF data = <<>> THEN {Ninguno}
        ELSE {data[i] : i \in {j \in idx : \A k \in idx : data[k].hora <= data[j].hora}}

obtener_ultimo_registro(tabla, nombre, fecha, falla) ==
    LET data == FilasDe(tabla, nombre, fecha)
        idx == 1..Len(data)
    IN  IF falla \/ data = <<>> THEN {Ninguno}
        ELSE {data[i] : i \in {j \in idx : \A k \in idx : data[k].hora <= data[j].hora}}

UltimoLocal_SinFecha(cache, nombre, fecha_hoy) ==
    LET fechas == {f \in DOMAIN cache : nombre \in DOMAIN cache[f]}
        reciente == CHOOSE f \in fechas : \A g \in fechas : g <= f
        historial == cache[reciente][nombre]
    IN  IF fechas # {} THEN historial[Len(historial)] ELSE Ninguno

UltimoLocal(cache, nombre, fecha_hoy) ==
    LET registros == Get(cache, fecha_hoy, DictVacio)
        historial == Get(registros, nombre, <<>>)
    IN  IF historial # <<>> THEN historial[Len(historial)] ELSE Ninguno

verificar_puede_registrar(hospedado, cache, ultimo_remoto, nombre, tiempo_espera, t1, t2, t3) ==
    IF hospedado THEN _evaluar_registro(ultimo_remoto, tiempo_espera, t2, t3)
    ELSE _evaluar_registro(UltimoLocal(cache, nombre, Fecha(t1)), tiempo_espera, t2, t3)

_registrar_local(cache, nombre, tipo, fecha, hora) ==
    LET c1 == IF fecha \in DOMAIN cache THEN cache ELSE Put(cache, fecha, DictVacio)
        c2 == IF nombre \in DOMAIN c1[fecha] THEN c1
              ELSE Put(c1, fecha, Put(c1[fecha], nombre, <<>>))
    IN  Put(c2, fecha, Put(c2[fecha], nombre,
                           Append(c2[fecha][nombre], [tipo |-> tipo, hora |-> hora])))

guardar_asistencia(tabla, nombre, tipo, fecha, hora, falla) ==
    IF falla THEN tabla
    ELSE Append(tabla, [persona_nombre |-> nombre, tipo |-> tipo,
                        fecha |-> fecha, hora |-> hora])

registrar_asistencia(m, hospedado, nombre, tipo, t4, t5, falla) ==
    LET fecha_hoy == Fecha(t4)
        hora_actual == Hora(t5)
        resultado == [exito |-> TRUE, nombre |-> nombre, tipo |-> tipo,
                      hora |-> hora_actual, fecha |-> fecha_hoy]
    IN  IF hospedado
        THEN [m EXCEPT !.reloj = t5,
                       !.tabla = guardar_asistencia(m.tabla, nombre, tipo,
                                                    fecha_hoy, hora_actual, falla),
                       !.registros = Append(m.registros, resultado),
                       !.fallas = IF falla THEN @ + 1 ELSE @]
        ELSE LET c == _registrar_local(m.cache, nombre, tipo, fecha_hoy, hora_actual)
             IN  IF falla
                 THEN [m EXCEPT !.reloj = t5, !.cache = c, !.error = TRUE,
                                !.fallas = @ + 1]
                 ELSE [m EXCEPT !.reloj = t5, !.cache = c, !.archivo = c,
                                !.registros = Append(m.registros, resultado)]

-----------------------------------------------------------------------------
(* The clock reads of one pass of the handler's loop: verificar reads the   *)
(* clock for the date (line 86 in hosted mode; line 58, inside              *)
(* obtener_asistencia_hoy, in local mode, where the value of line 86 is not *)
(* used), then at lines 125 and 127 of asistencia_service.py; registrar     *)
(* reads it at lines 33 and 34.  Time may move on by 5 seconds after read   *)
(* k (k = 0: not at all), once in a request (m.avanzado).                   *)

Avances(m) == IF ~m.avanzado /\ m.reloj + 5 <= Limite THEN 0..4 ELSE {0}

Lecturas(t, k) == [i \in 1..5 |-> IF k = 0 \/ i <= k THEN t ELSE t + 5]

Fallas(n) == IF n < MaxFallas THEN BOOLEAN ELSE {FALSE}

FallasLectura(hospedado, n) == IF hospedado THEN Fallas(n) ELSE {FALSE}

PasoRostro(m, hospedado, nombre) ==
    IF m.error \/ nombre = Desconocido THEN {m}
    ELSE UNION { UNION {
        LET L == Lecturas(m.reloj, k)
            m1 == [m EXCEPT !.reloj = L[3], !.fallas = IF fl THEN @ + 1 ELSE @,
                            !.avanzado = @ \/ k # 0]
            v == verificar_puede_registrar(hospedado, m.cache, ultimo, nombre,
                                           TiempoEsperaDefecto, L[1], L[2], L[3])
        IN  IF ~v.puede THEN {m1}
            ELSE {registrar_asistencia(m1, hospedado, nombre, v.tipo, L[4], L[5], fe)
                    : fe \in Fallas(m1.fallas)}
        : ultimo \in obtener_ultimo_registro(m.tabla, nombre, Fecha(Lecturas(m.reloj, k)[1]), fl) }
        : k \in Avances(m), fl \in FallasLectura(hospedado, m.fallas) }

RECURSIVE ProcesarRostros(_, _, _)
ProcesarRostros(ms, hospedado, nombres) ==
    IF nombres = <<>> THEN ms
    ELSE ProcesarRostros(UNION {PasoRostro(m, hospedado, Head(nombres)) : m \in ms},
                         hospedado, Tail(nombres))

Memoria ==
    [reloj |-> reloj, cache |-> asistencia_cache, archivo |-> archivo_asistencia,
     tabla |-> asistencias, fallas |-> fallas, registros |-> <<>>, error |-> FALSE,
     avanzado |-> FALSE]

-----------------------------------------------------------------------------
(* Reading the ledger back *)

RECURSIVE InsertarPorHora(_, _)
InsertarPorHora(ordenadas, fila) ==
    IF ordenadas = <<>> THEN <<fila>>
    ELSE IF Head(ordenadas).hora <= fila.hora
         THEN <<Head(ordenadas)>> \o InsertarPorHora(Tail(ordenadas), fila)
         ELSE <<fila>> \o ordenadas

RECURSIVE OrdenarPorHora(_)
OrdenarPorHora(filas) ==
    IF filas = <<>> THEN <<>>
    ELSE InsertarPorHora(OrdenarPorHora(SubSeq(filas, 1, Len(filas) - 1)), filas[Len(filas)])

RECURSIVE _group_by_person(_)
_group_by_person(rows) ==
    IF rows = <<>> THEN DictVacio
    ELSE LET agrupado == _group_by_person(SubSeq(rows, 1, Len(rows) - 1))
             row == rows[Len(rows)]
             persona == row.persona_nombre
         IN  Put(agrupado, persona,
                 Append(Get(agrupado, persona, <<>>), [tipo |-> row.tipo, hora |-> row.hora]))

obtener_asistencia_por_fecha(tabla, fecha, falla) ==
    LET EsFecha(r) == r.fecha = fecha
    IN  IF falla THEN DictVacio
        ELSE _group_by_person(OrdenarPorHora(SelectSeq(tabla, EsFecha)))

obtener_asistencia_fecha(hospedado, cache, tabla, fecha, falla) ==
    IF hospedado THEN obtener_asistencia_por_fecha(tabla, fecha, falla)
    ELSE Get(cache, fecha, DictVacio)

-----------------------------------------------------------------------------
(* Actions of the attendance service *)

SinCambioPersonas == UNCHANGED <<personas_registradas, personas_pkl, personas_tabla, fotos>>

Tick(limite) ==
    /\ reloj + 5 <= limite
    /\ reloj' = reloj + 5
    /\ UNCHANGED <<usa_supabase, asistencia_cache, archivo_asistencia, asistencias,
                   fallas, peticiones, respuesta>>
    /\ SinCambioPersonas

ApiRegistrarAsistencia(hay_imagen, imagen) ==
    /\ IF ~hay_imagen
       THEN /\ respuesta' = [op |-> "api_asistencia", estado |-> 400]
            /\ UNCHANGED <<reloj, asistencia_cache, archivo_asistencia, asistencias, fallas>>
       ELSE LET rostros == detectar_rostros(personas_registradas, imagen)
                nombres == [i \in 1..Len(rostros) |-> rostros[i].nombre]
            IN  \E m \in ProcesarRostros({Memoria}, usa_supabase, nombres) :
                  /\ reloj' = m.reloj
                  /\ asistencia_cache' = m.cache
                  /\ archivo_asistencia' = m.archivo
                  /\ asistencias' = m.tabla
                  /\ fallas' = m.fallas
                  /\ respuesta' = IF m.error
                                  THEN [op |-> "api_asistencia", estado |-> 500]
                                  ELSE [op |-> "api_asistencia", estado |-> 200,
                                        registros |-> m.registros,
                                        total_registrados |-> Len(m.registros)]
    /\ UNCHANGED <<usa_supabase, peticiones>>
    /\ SinCambioPersonas

VerificarPuedeRegistrar(nombre, tiempo_espera) ==
    /\ \E k \in {0, 1, 2}, fl \in FallasLectura(usa_supabase, fallas) :
         LET L == Lecturas(reloj, IF reloj + 5 <= Limite THEN k ELSE 0)
         IN  \E ultimo \in obtener_ultimo_registro(asistencias, nombre, Fecha(L[1]), fl) :
               LET v == verificar_puede_registrar(usa_supabase, asistencia_cache, ultimo,
                                                  nombre, tiempo_espera, L[1], L[2], L[3])
               IN  /\ reloj' = L[3]
                   /\ fallas' = IF fl THEN fallas + 1 ELSE fallas
                   /\ respuesta' = [op |-> "verificar", nombre |-> nombre,
                                    tiempo_espera |-> tiempo_espera,
                                    fecha_hoy |-> Fecha(L[1]), ahora |-> L[2],
                                    puede |-> v.puede, tipo |-> v.tipo]
    /\ UNCHANGED <<usa_supabase, asistencia_cache, archivo_asistencia, asistencias,
                   peticiones>>
    /\ SinCambioPersonas

-----------------------------------------------------------------------------
(* The services after construction: empty ledger, people already registered *)

PersonasIniciales ==
    << [nombre |-> "Ana", embedding |-> <<10, 0>>, fecha_registro |-> 0,
        edad |-> 30, genero |-> "M"],
       [nombre |-> "Bob", embedding |-> <<0, 10>>, fecha_registro |-> 0,
        edad |-> 25, genero |-> "F"] >>

TablaDe(personas) ==
    [n \in {personas[i].nombre : i \in 1..Len(personas)} |->
        LET e == CHOOSE x \in {personas[i] : i \in 1..Len(personas)} : x.nombre = n
        IN  [nombre |-> e.nombre, embedding |-> e.embedding,
             fecha_registro |-> e.fecha_registro, edad |-> e.edad,
             genero |-> e.genero, foto_url |-> foto_bucket(n)]]

InitServicios(personas) ==
    /\ reloj = Inicio
    /\ usa_supabase \in BOOLEAN
    /\ personas_registradas = personas
    /\ personas_pkl = (IF usa_supabase THEN <<>> ELSE personas)
    /\ personas_tabla = (IF usa_supabase THEN TablaDe(personas) ELSE DictVacio)
    /\ fotos = {foto_de(usa_supabase, personas[i].nombre) : i \in 1..Len(personas)}
    /\ fallas = 0
    /\ peticiones = [p \in Hilos |-> Reposo]
    /\ respuesta = [op |-> "inicio"]

LibroVacio ==
    /\ asistencia_cache = DictVacio
    /\ archivo_asistencia = DictVacio
    /\ asistencias = <<>>

InitCon(personas) == InitServicios(personas) /\ LibroVacio

Init == InitCon(PersonasIniciales)

Next ==
    \/ Tick(Limite)
    \/ ApiRegistrarAsistencia(FALSE, <<>>)
    \/ \E imagen \in Imagenes : ApiRegistrarAsistencia(TRUE, imagen)

Spec == Init /\ [][Next]_vars

(* The policy queried directly: one registered person, any person asked about *)

InitPolitica == InitCon(SubSeq(PersonasIniciales, 1, 1))

NextPolitica ==
    \/ Tick(Limite)
    \/ \E imagen \in Imagenes : ApiRegistrarAsistencia(TRUE, imagen)
    \/ \E n \in Nombres, te \in TiemposEspera : VerificarPuedeRegistrar(n, te)

SpecPolitica == InitPolitica /\ [][NextPolitica]_vars

-----------------------------------------------------------------------------
(* The ledger as its readers see it *)

FechasModelo == Fecha(Inicio)..Fecha(Limite)

RegistrosDe(fecha) ==
    obtener_asistencia_fecha(usa_supabase, asistencia_cache, asistencias, fecha, FALSE)

EventosDe(fecha, nombre) == Get(RegistrosDe(fecha), nombre, <<>>)

Persistidos(fecha, nombre) ==
    IF usa_supabase THEN EventosDe(fecha, nombre)
    ELSE Get(Get(archivo_asistencia, fecha, DictVacio), nombre, <<>>)

Alterna(eventos) ==
    \A i \in 1..Len(eventos) :
        eventos[i].tipo = (IF i % 2 = 1 THEN "entrada" ELSE "salida")

NoDecreciente(eventos) ==
    \A i \in 1..Len(eventos) : \A j \in 1..Len(eventos) :
        i < j => eventos[i].hora <= eventos[j].hora

Contiene(eventos, tipo, hora) ==
    \E i \in 1..Len(eventos) : eventos[i].tipo = tipo /\ eventos[i].hora = hora

FilasDeRegistros(registros) ==
    [i \in 1..Len(registros) |->
        [persona_nombre |-> registros[i].nombre, tipo |-> registros[i].tipo,
         fecha |-> registros[i].fecha, hora |-> registros[i].hora]]

EventosDeRegistros(registros, fecha, nombre) ==
    LET filas == FilasDe(FilasDeRegistros(registros), nombre, fecha)
    IN  [i \in 1..Len(filas) |-> [tipo |-> filas[i].tipo, hora |-> filas[i].hora]]

DentroDeEspera(nombre, fecha_hoy, ahora, tiempo_espera) ==
    LET eventos == EventosDe(fecha_hoy, nombre)
        transcurrido == ahora - (fecha_hoy * SegundosPorDia + eventos[Len(eventos)].hora)
    IN  eventos # <<>> /\ 0 <= transcurrido /\ transcurrido < tiempo_espera

-----------------------------------------------------------------------------
(* Claims about the attendance policy and ledger *)

(* C1: under sequential record attempts (verificar_puede_registrar, then    *)
(* registrar_asistencia when allowed) the events stored for every           *)
(* (date, person) alternate entrada, salida, entrada, ... starting with     *)
(* entrada.                                                                *)
C1_AlternanciaEstricta ==
    \A f \in FechasModelo : \A n \in Nombres : Alterna(EventosDe(f, n))

(* C2: a call of verificar_puede_registrar made less than tiempo_espera     *)
(* seconds after the person's most recent event of today returns            *)
(* (False, None) and leaves the ledger unchanged.                           *)
C2_RechazoDentroDeEspera ==
    [][\A n \in Nombres : \A te \in TiemposEspera :
         (/\ VerificarPuedeRegistrar(n, te)
          /\ DentroDeEspera(n, respuesta'.fecha_hoy, respuesta'.ahora, te))
         => /\ respuesta'.puede = FALSE
            /\ respuesta'.tipo = "None"
            /\ UNCHANGED <<asistencia_cache, archivo_asistencia, asistencias>>]_vars

(* C3: for a person with no event stored under today's date,                *)
(* verificar_puede_registrar returns (True, "entrada"), whatever the time   *)
(* and whatever tiempo_espera is.                                           *)
C3_SinEventoHoyEsEntrada ==
    respuesta.op = "verificar"
    => (EventosDe(respuesta.fecha_hoy, respuesta.nombre) = <<>>
        => respuesta.puede /\ respuesta.tipo = "entrada")

(* C3 happens: Ana is asked about just after midnight, 5 seconds after her  *)
(* last event of the day before, with a 15 second tiempo_espera.            *)
C3_Testigo ==
    /\ respuesta.op = "verificar"
    /\ respuesta.nombre = "Ana"
    /\ respuesta.tiempo_espera = 15
    /\ respuesta.fecha_hoy = Fecha(Inicio) + 1
    /\ respuesta.ahora = SegundosPorDia * respuesta.fecha_hoy
    /\ EventosDe(respuesta.fecha_hoy, "Ana") = <<>>
    /\ Contiene(EventosDe(Fecha(Inicio), "Ana"), "entrada", SegundosPorDia - 5)
    /\ respuesta.puede
    /\ respuesta.tipo = "entrada"

(* C4: registrar_asistencia never reports exito = True for an event that    *)
(* was not persisted; a failed write reaches the caller as an error.        *)
C4_ExitoImplicaPersistido ==
    (respuesta.op = "api_asistencia" /\ respuesta.estado = 200)
    => \A i \in 1..Len(respuesta.registros) :
         LET r == respuesta.registros[i]
         IN  r.exito => Contiene(Persistidos(r.fecha, r.nombre), r.tipo, r.hora)

(* C5: the list 'registros' returned by /api/asistencia/registrar is        *)
(* exactly the sequence of events the request appended to the ledger.       *)
C5_RegistrosSonLoAgregado ==
    [][((\E imagen \in Imagenes : ApiRegistrarAsistencia(TRUE, imagen))
        /\ respuesta'.estado = 200)
       => IF usa_supabase
          THEN asistencias' = asistencias \o FilasDeRegistros(respuesta'.registros)
          ELSE \A f \in FechasModelo : \A n \in Nombres :
                 Get(Get(asistencia_cache', f, DictVacio), n, <<>>)
                 = Get(Get(asistencia_cache, f, DictVacio), n, <<>>)
                   \o EventosDeRegistros(respuesta'.registros, f, n)]_vars

(* C6: the events stored for each (date, person) are in non-decreasing      *)
(* time-of-day order.                                                      *)
C6_OrdenPorHora ==
    \A f \in FechasModelo : \A n \in Nombres : NoDecreciente(EventosDe(f, n))

-----------------------------------------------------------------------------
(* Same-day statistics *)

any_tipo(eventos, tipo) == \E i \in 1..Len(eventos) : eventos[i].tipo = tipo

RECURSIVE estadisticas_bucle_UltimoEvento(_, _, _)
estadisticas_bucle_UltimoEvento(registros, pendientes, acc) ==
    IF pendientes = {} THEN acc
    ELSE LET p == CHOOSE x \in pendientes : TRUE
             eventos == registros[p]
             tiene_entrada == any_tipo(eventos, "entrada")
             tiene_salida == any_tipo(eventos, "salida")
             presente == eventos # <<>> /\ eventos[Len(eventos)].tipo = "entrada"
         IN  estadisticas_bucle_UltimoEvento(registros, pendientes \ {p},
                 [acc EXCEPT !.con_entrada = IF tiene_entrada THEN @ + 1 ELSE @,
                             !.con_salida = IF tiene_salida THEN @ + 1 ELSE @,
                             !.presentes = IF presente THEN @ + 1 ELSE @])

RECURSIVE estadisticas_bucle(_, _, _)
estadisticas_bucle(registros, pendientes, acc) ==
    IF pendientes = {} THEN acc
    ELSE LET p == CHOOSE x \in pendientes : TRUE
             eventos == registros[p]
             tiene_entrada == any_tipo(eventos, "entrada")
             tiene_salida == any_tipo(eventos, "salida")
         IN  estadisticas_bucle(registros, pendientes \ {p},
                 [acc EXCEPT !.con_entrada = IF tiene_entrada THEN @ + 1 ELSE @,
                             !.con_salida = IF tiene_salida THEN @ + 1 ELSE @,
                             !.presentes = IF tiene_entrada /\ ~tiene_salida
                                           THEN @ + 1 ELSE @])

_calcular_estadisticas(registros) ==
    estadisticas_bucle(registros, DOMAIN registros,
        [total_personas |-> Cardinality(DOMAIN registros),
         con_entrada |-> 0, con_salida |-> 0, presentes |-> 0])

obtener_asistencia_hoy(hospedado, cache, tabla, t, falla) ==
    obtener_asistencia_fecha(hospedado, cache, tabla, Fecha(t), falla)

(* obtener_estadisticas_hoy reads the clock at line 74 and again at line 58 *)
(* (inside obtener_asistencia_hoy); k = 1: 5 seconds pass between the two.  *)
ObtenerEstadisticasHoy(k, falla) ==
    /\ falla => (usa_supabase /\ fallas < MaxFallas)
    /\ k = 1 => reloj + 5 <= Limite
    /\ LET t74 == reloj
           t58 == reloj + 5 * k
           registros == obtener_asistencia_hoy(usa_supabase, asistencia_cache,
                                               asistencias, t58, falla)
           e == _calcular_estadisticas(registros)
       IN  /\ reloj' = t58
           /\ respuesta' = [op |-> "estadisticas",
                            estadisticas |->
                                [total_personas |-> e.total_personas,
                                 con_entrada |-> e.con_entrada,
                                 con_salida |-> e.con_salida,
                                 presentes |-> e.presentes,
                                 fecha |-> Fecha(t74)]]
    /\ fallas' = IF falla THEN fallas + 1 ELSE fallas
    /\ UNCHANGED <<usa_supabase, asistencia_cache, archivo_asistencia, asistencias,
                   peticiones>>
    /\ SinCambioPersonas

(* A ledger found at start-up: asistencia.json as _cargar_asistencia_local  *)
(* loads it, or the rows already in the hosted table.  Event i of a person  *)
(* was stored at i o'clock.                                                *)

TiposPosibles == SeqsHasta({"entrada", "salida"}, MaxEventosDia)

ConHoras(tipos) == [i \in 1..Len(tipos) |-> [tipo |-> tipos[i], hora |-> 3600 * i]]

RegistrosIniciales ==
    UNION {[S -> {ConHoras(tipos) : tipos \in TiposPosibles}] : S \in SUBSET Nombres}

RECURSIVE FilasIniciales(_, _, _)
FilasIniciales(registros, fecha, pendientes) ==
    IF pendientes = {} THEN <<>>
    ELSE LET p == CHOOSE x \in pendientes : TRUE
         IN  [i \in 1..Len(registros[p]) |->
                 [persona_nombre |-> p, tipo |-> registros[p][i].tipo,
                  fecha |-> fecha, hora |-> registros[p][i].hora]]
             \o FilasIniciales(registros, fecha, pendientes \ {p})

InitEstadisticas ==
    /\ InitServicios(PersonasIniciales)
    /\ \E registros \in RegistrosIniciales :
         \/ /\ ~usa_supabase
            /\ asistencia_cache = Put(DictVacio, Fecha(Inicio), registros)
            /\ archivo_asistencia = asistencia_cache
            /\ asistencias = <<>>
         \/ /\ usa_supabase
            /\ \A n \in DOMAIN registros : registros[n] # <<>>
            /\ asistencia_cache = DictVacio
            /\ archivo_asistencia = DictVacio
            /\ asistencias = FilasIniciales(registros, Fecha(Inicio), DOMAIN registros)

NextEstadisticas ==
    \/ Tick(Limite)
    \/ \E k \in {0, 1}, falla \in BOOLEAN : ObtenerEstadisticasHoy(k, falla)

SpecEstadisticas == InitEstadisticas /\ [][NextEstadisticas]_vars

(* C7: _calcular_estadisticas returns total_personas = the persons with a   *)
(* record list, con_entrada = those with at least one entrada, con_salida = *)
(* those with at least one salida, presentes = those with an entrada and no *)
(* salida (so entrada, salida, entrada is not counted as present).          *)
C7_EstadisticasCuentan ==
    [][\A k \in {0, 1} : \A falla \in BOOLEAN :
         (respuesta'.op = "estadisticas" /\ ObtenerEstadisticasHoy(k, falla))
         => LET registros == obtener_asistencia_hoy(usa_supabase, asistencia_cache,
                                                    asistencias, reloj', falla)
                P == DOMAIN registros
                Con(tipo) == {p \in P : \E i \in 1..Len(registros[p]) :
                                          registros[p][i].tipo = tipo}
                e == respuesta'.estadisticas
            IN  /\ e.total_personas = Cardinality(P)
                /\ e.con_entrada = Cardinality(Con("entrada"))
                /\ e.con_salida = Cardinality(Con("salida"))
                /\ e.presentes = Cardinality(Con("entrada") \ Con("salida"))
                /\ \A p \in P :
                     ( /\ Len(registros[p]) = 3
                       /\ registros[p][1].tipo = "entrada"
                       /\ registros[p][2].tipo = "salida"
                       /\ registros[p][3].tipo = "entrada" )
                     => e.presentes <= Cardinality(P \ {p})]_vars

(* C7 happens: the day's records are {Ana: [entrada], Bob: [entrada,        *)
(* salida]} and the statistics returned for it are 2, 2, 1, 1.              *)
C7_Testigo ==
    /\ respuesta.op = "estadisticas"
    /\ reloj = Inicio
    /\ RegistrosDe(Fecha(Inicio)) = ("Ana" :> ConHoras(<<"entrada">>)
                                     @@ "Bob" :> ConHoras(<<"entrada", "salida">>))
    /\ respuesta.estadisticas = [total_personas |-> 2, con_entrada |-> 2,
                                 con_salida |-> 1, presentes |-> 1,
                                 fecha |-> Fecha(Inicio)]

-----------------------------------------------------------------------------
(* Identity store *)

EntradasDe(personas, nombre) ==
    LET Es(e) == e.nombre = nombre
    IN  SelectSeq(personas, Es)

asignar_persona_Agrega(personas, nombre, persona_info) ==
    Append(personas, persona_info)

asignar_persona(personas, nombre, persona_info) ==
    IF EntradasDe(personas, nombre) # <<>>
    THEN [i \in 1..Len(personas) |->
            IF personas[i].nombre = nombre THEN persona_info ELSE personas[i]]
    ELSE Append(personas, persona_info)

borrar_persona(personas, nombre) ==
    LET Otro(e) == e.nombre # nombre
    IN  SelectSeq(personas, Otro)

Quitar(d, k) == [x \in (DOMAIN d) \ {k} |-> d[x]]

persona_info_de(nombre, face, t) ==
    [nombre |-> nombre, embedding |-> face.embedding, fecha_registro |-> t,
     edad |-> face.age, genero |-> IF face.sex = "M" THEN "M" ELSE "F"]

registrar_persona_PrimerRostro(personas, nombre, faces, t) ==
    IF Len(faces) = 0
    THEN [exito |-> FALSE, mensaje |-> "No se detecto ningun rostro en la imagen"]
    ELSE LET persona_info == persona_info_de(nombre, faces[1], t)
             nuevas == asignar_persona(personas, nombre, persona_info)
         IN  [exito |-> TRUE, mensaje |-> <<nombre, "registrado correctamente">>,
              total_registrados |-> Len(nuevas), personas |-> nuevas,
              persona_info |-> persona_info]

registrar_persona(personas, nombre, faces, t) ==
    IF Len(faces) = 0
    THEN [exito |-> FALSE, mensaje |-> "No se detecto ningun rostro en la imagen"]
    ELSE IF Len(faces) > 1
    THEN [exito |-> FALSE,
          mensaje |-> "Se detectaron multiples rostros. Usa una sola persona"]
    ELSE LET persona_info == persona_info_de(nombre, faces[1], t)
             nuevas == asignar_persona(personas, nombre, persona_info)
         IN  [exito |-> TRUE, mensaje |-> <<nombre, "registrado correctamente">>,
              total_registrados |-> Len(nuevas), personas |-> nuevas,
              persona_info |-> persona_info]

(* supabase.guardar_persona: the upsert writes the columns of the payload,  *)
(* which has foto_url only when the upload gave one; a row that exists      *)
(* keeps its other columns.                                                 *)
guardar_persona(tabla, persona_info, falla_foto, falla_guardar) ==
    LET nombre == persona_info.nombre
        foto_url == _subir_imagen(nombre, falla_foto)
        anterior == IF nombre \in DOMAIN tabla THEN tabla[nombre].foto_url ELSE SinFoto
        fila == [nombre |-> nombre, embedding |-> persona_info.embedding,
                 fecha_registro |-> persona_info.fecha_registro,
                 edad |-> persona_info.edad, genero |-> persona_info.genero,
                 foto_url |-> IF foto_url # SinFoto THEN foto_url ELSE anterior]
    IN  IF falla_guardar THEN tabla ELSE Put(tabla, nombre, fila)

CarasRegistro == {c \in Caras : c.embedding \in {<<10, 0>>, <<0, 10>>}}

ImagenesRegistro == SeqsHasta(CarasRegistro, MaxRostros)

NombresPeticion == Nombres \cup {""}

SinCambioAsistencia ==
    UNCHANGED <<reloj, usa_supabase, asistencia_cache, archivo_asistencia, asistencias,
                peticiones>>

(* POST /api/registrar.  falla_foto: the photo is not stored (the upload    *)
(* raises inside _subir_imagen, or cv2.imwrite returns False);              *)
(* falla_guardar: the upsert raises (swallowed by guardar_persona), or the  *)
(* pickle write raises (reaches the handler: 500).                          *)
ApiRegistrarPersona(nombre, hay_imagen, imagen, falla_foto, falla_guardar) ==
    /\ (falla_foto \/ falla_guardar)
         => /\ hay_imagen /\ nombre # "" /\ Len(imagen) = 1
            /\ ~(falla_foto /\ falla_guardar)
            /\ fallas < MaxFallas
    /\ IF nombre = "" \/ ~hay_imagen
       THEN /\ respuesta' = [op |-> "api_registrar", nombre |-> nombre, estado |-> 400]
            /\ UNCHANGED <<fallas>>
            /\ SinCambioPersonas
       ELSE LET r == registrar_persona(personas_registradas, nombre, imagen, reloj)
                ok == [op |-> "api_registrar", nombre |-> nombre, estado |-> 200,
                       exito |-> TRUE, mensaje |-> r.mensaje,
                       total_registrados |-> r.total_registrados]
            IN  IF ~r.exito
                THEN /\ respuesta' = [op |-> "api_registrar", nombre |-> nombre,
                                      estado |-> 200, exito |-> FALSE,
                                      mensaje |-> r.mensaje]
                     /\ UNCHANGED <<fallas>>
                     /\ SinCambioPersonas
                ELSE /\ personas_registradas' = r.personas
                     /\ fallas' = IF falla_foto \/ falla_guardar THEN fallas + 1 ELSE fallas
                     /\ IF usa_supabase
                        THEN /\ fotos' = IF falla_foto THEN fotos
                                         ELSE fotos \cup {foto_bucket(nombre)}
                             /\ personas_tabla' = guardar_persona(personas_tabla,
                                                      r.persona_info, falla_foto,
                                                      falla_guardar)
                             /\ UNCHANGED personas_pkl
                             /\ respuesta' = ok
                        ELSE IF falla_guardar
                        THEN /\ UNCHANGED <<personas_pkl, personas_tabla, fotos>>
                             /\ respuesta' = [op |-> "api_registrar", nombre |-> nombre,
                                              estado |-> 500]
                        ELSE /\ personas_pkl' = r.personas
                             /\ fotos' = IF falla_foto THEN fotos
                                         ELSE fotos \cup {foto_local(nombre)}
                             /\ UNCHANGED personas_tabla
                             /\ respuesta' = ok
    /\ SinCambioAsistencia

(* DELETE /api/personas/<nombre>.  falla: the delete raises (swallowed by   *)
(* supabase.eliminar_persona), or the pickle write raises (500).            *)
ApiEliminarPersona(nombre, falla) ==
    /\ falla => (EntradasDe(personas_registradas, nombre) # <<>> /\ fallas < MaxFallas)
    /\ IF EntradasDe(personas_registradas, nombre) = <<>>
       THEN /\ respuesta' = [op |-> "api_eliminar", nombre |-> nombre, estado |-> 200,
                             exito |-> FALSE, mensaje |-> <<nombre, "no encontrado">>]
            /\ UNCHANGED <<fallas>>
            /\ SinCambioPersonas
       ELSE LET ok == [op |-> "api_eliminar", nombre |-> nombre, estado |-> 200,
                       exito |-> TRUE, mensaje |-> <<nombre, "eliminado correctamente">>]
            IN  /\ personas_registradas' = borrar_persona(personas_registradas, nombre)
                /\ fallas' = IF falla THEN fallas + 1 ELSE fallas
                /\ IF usa_supabase
                   THEN /\ personas_tabla' = IF falla THEN personas_tabla
                                             ELSE Quitar(personas_tabla, nombre)
                        /\ fotos' = IF falla THEN fotos
                                    ELSE fotos \ {foto_bucket(nombre)}
                        /\ UNCHANGED personas_pkl
                        /\ respuesta' = ok
                   ELSE IF falla
                   THEN /\ UNCHANGED <<personas_pkl, personas_tabla, fotos>>
                        /\ respuesta' = [op |-> "api_eliminar", nombre |-> nombre,
                                         estado |-> 500]
                   ELSE /\ personas_pkl' = personas_registradas'
                        /\ fotos' = fotos \ {foto_local(nombre)}
                        /\ UNCHANGED personas_tabla
                        /\ respuesta' = ok
    /\ SinCambioAsistencia

(* A fresh installation: nobody registered yet *)

InitPersonas == InitCon(<<>>)

NextPersonas ==
    \/ Tick(LimitePersonas)
    \/ \E nombre \in NombresPeticion :
         ApiRegistrarPersona(nombre, FALSE, <<>>, FALSE, FALSE)
    \/ \E nombre \in NombresPeticion, imagen \in ImagenesRegistro,
          falla_foto \in BOOLEAN, falla_guardar \in BOOLEAN :
         ApiRegistrarPersona(nombre, TRUE, imagen, falla_foto, falla_guardar)
    \/ \E nombre \in Nombres, falla \in BOOLEAN : ApiEliminarPersona(nombre, falla)

SpecPersonas == InitPersonas /\ [][NextPersonas]_vars

(* C8: registrar_persona succeeds only when exactly one face is detected;   *)
(* with zero or several faces it returns a failure result and the identity  *)
(* store, in memory and persisted, is unchanged, an earlier registration    *)
(* under the same name included.  (No store call is made for such an image, *)
(* so none can fail.)  Stated as: a step is a rejection that changes        *)
(* nothing, or it is not a registration from such an image.                 *)
C8_RegistroExigeUnRostro ==
    [][\A nombre \in Nombres :
         (respuesta'.op = "api_registrar" /\ respuesta'.nombre = nombre)
         => \A imagen \in {im \in ImagenesRegistro : Len(im) # 1} :
              \/ /\ respuesta'.estado = 200
                 /\ respuesta'.exito = FALSE
                 /\ UNCHANGED <<personas_registradas, personas_pkl,
                                personas_tabla, fotos>>
              \/ ~ApiRegistrarPersona(nombre, TRUE, imagen, FALSE, FALSE)]_vars

(* C8 happens: Ana is registered, and a later attempt to register her with  *)
(* a two-face image has just been refused.                                  *)
C8_Testigo ==
    /\ respuesta.op = "api_registrar"
    /\ respuesta.nombre = "Ana"
    /\ respuesta.estado = 200
    /\ respuesta.exito = FALSE
    /\ respuesta.mensaje = "Se detectaron multiples rostros. Usa una sola persona"
    /\ Len(EntradasDe(personas_registradas, "Ana")) = 1
    /\ EntradasDe(personas_registradas, "Ana")[1].fecha_registro < reloj
    /\ IF usa_supabase THEN "Ana" \in DOMAIN personas_tabla
       ELSE personas_pkl = personas_registradas

(* C9: after a successful registrar_persona(nombre, ...) the identity store *)
(* holds for nombre exactly the embedding and metadata of that registration *)
(* (one entry per person: a later registration replaces the earlier one);   *)
(* after eliminar_persona(nombre) the name is absent; eliminar_persona of   *)
(* an absent name reports not found and changes nothing.  The identity      *)
(* store is personas_registradas, which the recognizer reads; its persisted *)
(* copy agrees with it whenever the store call of the request did not       *)
(* raise.  Each part is stated as: the step leaves the store as said, or    *)
(* it is not that call.                                                     *)
C9_IdaYVuelta ==
    [][/\ \A nombre \in Nombres :
            ( /\ respuesta'.op = "api_registrar"
              /\ respuesta'.nombre = nombre
              /\ respuesta'.estado = 200
              /\ respuesta'.exito )
            => \A imagen \in {im \in ImagenesRegistro : Len(im) >= 1} :
               \A falla_foto \in BOOLEAN : \A falla_guardar \in BOOLEAN :
                 LET info == [nombre |-> nombre, embedding |-> imagen[1].embedding,
                              fecha_registro |-> reloj, edad |-> imagen[1].age,
                              genero |-> imagen[1].sex]
                 IN  \/ /\ EntradasDe(personas_registradas', nombre) = <<info>>
                        /\ \A otro \in Nombres \ {nombre} :
                             EntradasDe(personas_registradas', otro)
                             = EntradasDe(personas_registradas, otro)
                        /\ respuesta'.total_registrados = Len(personas_registradas')
                        /\ ~usa_supabase => personas_pkl' = personas_registradas'
                        /\ (usa_supabase /\ ~falla_guardar)
                             => /\ nombre \in DOMAIN personas_tabla'
                                /\ [k \in DOMAIN info |-> personas_tabla'[nombre][k]]
                                   = info
                     \/ ~ApiRegistrarPersona(nombre, TRUE, imagen, falla_foto,
                                             falla_guardar)
       /\ \A nombre \in Nombres :
            ( /\ respuesta'.op = "api_eliminar"
              /\ respuesta'.nombre = nombre
              /\ respuesta'.estado = 200 )
            => \A falla \in BOOLEAN :
                 \/ /\ EntradasDe(personas_registradas', nombre) = <<>>
                    /\ respuesta'.exito = (EntradasDe(personas_registradas, nombre) # <<>>)
                    /\ \A otro \in Nombres \ {nombre} :
                         EntradasDe(personas_registradas', otro)
                         = EntradasDe(personas_registradas, otro)
                    /\ ~respuesta'.exito
                         => UNCHANGED <<personas_registradas, personas_pkl,
                                        personas_tabla, fotos>>
                    /\ (respuesta'.exito /\ ~usa_supabase)
                         => personas_pkl' = personas_registradas'
                    /\ (respuesta'.exito /\ usa_supabase /\ ~falla)
                         => nombre \notin DOMAIN personas_tabla'
                 \/ ~ApiEliminarPersona(nombre, falla)]_vars

(* C9 happens: Ana was registered before Bob and has just been registered   *)
(* again with another face; her one entry, still the first, is the new one. *)
C9_Testigo ==
    /\ respuesta.op = "api_registrar"
    /\ respuesta.nombre = "Ana"
    /\ respuesta.estado = 200
    /\ respuesta.exito
    /\ Len(personas_registradas) = 2
    /\ personas_registradas[1] = [nombre |-> "Ana", embedding |-> <<0, 10>>,
                                  fecha_registro |-> reloj, edad |-> 25,
                                  genero |-> "F"]
    /\ personas_registradas[2].nombre = "Bob"
    /\ personas_registradas[2].fecha_registro < reloj

-----------------------------------------------------------------------------
(* Recognition *)

SinEmbedding_Conserva(rostro) == rostro

SinEmbedding(rostro) == [k \in (DOMAIN rostro) \ {"embedding"} |-> rostro[k]]

ImagenesDetectar == SeqsHasta(Caras, MaxRostrosDetectar)

(* POST /api/detectar *)
ApiDetectar(hay_imagen, imagen) ==
    /\ IF ~hay_imagen
       THEN respuesta' = [op |-> "api_detectar", estado |-> 400]
       ELSE LET rostros == detectar_rostros(personas_registradas, imagen)
            IN  respuesta' = [op |-> "api_detectar", estado |-> 200, exito |-> TRUE,
                              rostros |-> [i \in 1..Len(rostros) |->
                                              SinEmbedding(rostros[i])],
                              total_rostros |-> Len(rostros)]
    /\ UNCHANGED <<fallas>>
    /\ SinCambioPersonas
    /\ SinCambioAsistencia

(* An identity store found at start-up: the pickle file this program wrote, *)
(* or the rows of the hosted table, whose embedding column may be empty.    *)

NombresAlmacen == Nombres \cup {"Eva"}

EmbeddingsAlmacen(hospedado) ==
    {<<10, 0>>, <<0, 10>>, <<6, 8>>, <<4, 0>>} \cup (IF hospedado THEN {<<>>} ELSE {})

EntradasAlmacen(hospedado) ==
    [nombre : NombresAlmacen, embedding : EmbeddingsAlmacen(hospedado),
     fecha_registro : {0}, edad : {30}, genero : {"M"}]

AlmacenesIniciales(hospedado) ==
    {personas \in SeqsHasta(EntradasAlmacen(hospedado), MaxPersonas) :
        \A i \in 1..Len(personas) : \A j \in 1..Len(personas) :
            i # j => personas[i].nombre # personas[j].nombre}

InitReconocer ==
    /\ usa_supabase \in BOOLEAN
    /\ \E personas \in AlmacenesIniciales(usa_supabase) : InitCon(personas)

NextReconocer ==
    \/ ApiDetectar(FALSE, <<>>)
    \/ \E imagen \in ImagenesDetectar : ApiDetectar(TRUE, imagen)

SpecReconocer == InitReconocer /\ [][NextReconocer]_vars

Candidatos(personas) == {i \in 1..Len(personas) : Len(personas[i].embedding) # 0}

MejorEsperado(personas, embedding, umbral) ==
    LET C == Candidatos(personas)
        Sim(i) == Dot(embedding, personas[i].embedding)
        Maximos == {i \in C : \A j \in C : Sim(j) <= Sim(i)}
        primero == CHOOSE i \in Maximos : \A j \in Maximos : i <= j
    IN  IF C # {} /\ Sim(primero) >= umbral
        THEN [nombre |-> personas[primero].nombre, similitud |-> Sim(primero)]
        ELSE [nombre |-> NombreNone, similitud |-> 0]

(* C10: _reconocer_persona returns the name whose stored embedding has the  *)
(* maximum dot product with the query, with that score, when the maximum    *)
(* is >= the threshold 0.4, and (None, 0.0), reported as "Desconocido",     *)
(* otherwise; among exact ties the first in store iteration order wins.     *)
C10_MejorCoincidencia ==
    [][\A imagen \in ImagenesDetectar :
         ( /\ respuesta'.op = "api_detectar"
           /\ respuesta'.estado = 200
           /\ Len(respuesta'.rostros) = Len(imagen)
           /\ \A i \in 1..Len(imagen) : respuesta'.rostros[i].edad = imagen[i].age
           /\ ApiDetectar(TRUE, imagen) )
         => /\ respuesta'.total_rostros = Len(imagen)
            /\ \A i \in 1..Len(imagen) :
                 LET esperado == MejorEsperado(personas_registradas,
                                               imagen[i].embedding, UmbralDefecto)
                     r == _reconocer_persona(personas_registradas,
                                             imagen[i].embedding, UmbralDefecto)
                 IN  /\ r = esperado
                     /\ respuesta'.rostros[i].similitud = esperado.similitud
                     /\ respuesta'.rostros[i].nombre
                        = (IF esperado.nombre = NombreNone THEN Desconocido
                           ELSE esperado.nombre)]_vars

(* C10 happens: Bob and Ana, in that order, are stored with the same        *)
(* embedding, a face matching both exactly has just been detected, and it   *)
(* is reported as Bob.                                                      *)
C10_Testigo ==
    /\ respuesta.op = "api_detectar"
    /\ respuesta.estado = 200
    /\ Len(personas_registradas) = 2
    /\ personas_registradas[1].nombre = "Bob"
    /\ personas_registradas[2].nombre = "Ana"
    /\ personas_registradas[1].embedding = <<10, 0>>
    /\ personas_registradas[2].embedding = <<10, 0>>
    /\ respuesta.total_rostros = 1
    /\ respuesta.rostros[1] = [bbox |-> <<10, 20, 110, 140>>, edad |-> 30,
                               genero |-> "Masculino", confianza |-> 95,
                               nombre |-> "Bob", similitud |-> 100]

-----------------------------------------------------------------------------
(* What the API sends back *)

OrdenNombres == <<"Ana", "Bob", "Eva">>

(* FaceRecognitionService.listar_personas without the hosted store *)
listar_personas_local(personas) ==
    [i \in 1..Len(personas) |->
        [nombre |-> personas[i].nombre,
         fecha_registro |-> personas[i].fecha_registro,
         edad |-> personas[i].edad,
         genero |-> IF personas[i].genero = "M" THEN "Masculino" ELSE "Femenino"]]

(* SupabaseService.listar_personas: the named columns, ordered by nombre;   *)
(* a store error gives the empty list.                                      *)
listar_personas_hospedado(tabla, falla) ==
    LET Esta(n) == n \in DOMAIN tabla
        nombres == SelectSeq(OrdenNombres, Esta)
    IN  IF falla THEN <<>>
        ELSE [i \in 1..Len(nombres) |->
                LET row == tabla[nombres[i]]
                IN  [nombre |-> row.nombre,
                     fecha_registro |-> row.fecha_registro,
                     edad |-> row.edad,
                     genero |-> IF row.genero = "M" THEN "Masculino"
                                ELSE IF row.genero = "F" THEN "Femenino" ELSE "N/A",
                     foto_url |-> row.foto_url]]

listar_personas(hospedado, personas, tabla, falla) ==
    IF hospedado THEN listar_personas_hospedado(tabla, falla)
    ELSE listar_personas_local(personas)

(* GET /api/personas *)
ApiListarPersonas(falla) ==
    /\ falla => (usa_supabase /\ fallas < MaxFallas)
    /\ LET personas == listar_personas(usa_supabase, personas_registradas,
                                       personas_tabla, falla)
       IN  respuesta' = [op |-> "api_personas", estado |-> 200, exito |-> TRUE,
                         personas |-> personas, total |-> Len(personas)]
    /\ fallas' = IF falla THEN fallas + 1 ELSE fallas
    /\ SinCambioPersonas
    /\ SinCambioAsistencia

(* All the handlers together, on a service with two people registered; the *)
(* images sent for attendance show faces on the first axis only (Ana, or    *)
(* nobody known).                                                           *)

ImagenesPrimerEje ==
    {im \in ImagenesDetectar : \A i \in 1..Len(im) : im[i].embedding[2] = 0}

InitRespuestas == InitCon(PersonasIniciales)

NextRespuestas ==
    \/ Tick(LimitePersonas)
    \/ ApiDetectar(FALSE, <<>>)
    \/ \E imagen \in ImagenesDetectar : ApiDetectar(TRUE, imagen)
    \/ \E falla \in BOOLEAN : ApiListarPersonas(falla)
    \/ ApiRegistrarAsistencia(FALSE, <<>>)
    \/ \E imagen \in ImagenesPrimerEje : ApiRegistrarAsistencia(TRUE, imagen)
    \/ \E nombre \in Nombres, falla \in BOOLEAN : ApiEliminarPersona(nombre, falla)

SpecRespuestas == InitRespuestas /\ [][NextRespuestas]_vars

CamposRostro == {"bbox", "edad", "genero", "confianza", "nombre", "similitud"}

CamposPersona == {"nombre", "fecha_registro", "edad", "genero"}

CamposRegistro == {"exito", "nombre", "tipo", "hora", "fecha"}

(* C11: no response carries a raw embedding: a face returned by             *)
(* /api/detectar has the fields detectar_rostros gave it except             *)
(* 'embedding'; an entry of the person list has nombre, fecha_registro,     *)
(* edad and genero (and foto_url when the list comes from the hosted        *)
(* store) and nothing else; an entry of 'registros' in the answer of        *)
(* /api/asistencia/registrar is an event record (exito, nombre, tipo, hora, *)
(* fecha) and nothing else.                                                 *)
C11_SinEmbeddings ==
    /\ "embedding" \notin DOMAIN respuesta
    /\ (respuesta.op = "api_detectar" /\ respuesta.estado = 200)
         => \A i \in 1..Len(respuesta.rostros) :
              DOMAIN respuesta.rostros[i] = CamposRostro
    /\ respuesta.op = "api_personas"
         => \A i \in 1..Len(respuesta.personas) :
              DOMAIN respuesta.personas[i]
              = CamposPersona \cup (IF usa_supabase THEN {"foto_url"} ELSE {})
    /\ (respuesta.op = "api_asistencia" /\ respuesta.estado = 200)
         => \A i \in 1..Len(respuesta.registros) :
              DOMAIN respuesta.registros[i] = CamposRegistro

(* C11 happens: a face has just been detected and recognised as Ana, whose  *)
(* stored embedding it matches, and the face sent back has no embedding.    *)
C11_Testigo ==
    /\ respuesta.op = "api_detectar"
    /\ respuesta.estado = 200
    /\ respuesta.total_rostros = 1
    /\ respuesta.rostros[1].nombre = "Ana"
    /\ respuesta.rostros[1].similitud = 100
    /\ EntradasDe(personas_registradas, "Ana")[1].embedding = <<10, 0>>
    /\ "embedding" \notin DOMAIN respuesta.rostros[1]

-----------------------------------------------------------------------------
(* /api/asistencia/registrar served by several threads at once.  A step is  *)
(* one access to the shared ledger: the read made by                        *)
(* verificar_puede_registrar, the insert into the hosted table, and each    *)
(* test and each assignment of _registrar_local (lines 50 to 55).  The      *)
(* clock reads of a call belong to its step and are taken at one instant;   *)
(* time moves on between steps.  json.dump (line 55) stores the ledger as   *)
(* it stands when the step is taken; the bytes of two dumps written at once *)
(* are not modelled.                                                        *)

SinCambioLibro == UNCHANGED <<asistencia_cache, archivo_asistencia, asistencias>>

(* server.py 176-179: the next face at or after position i that the loop   *)
(* acts on (Len(nombres) + 1: the loop is over)                             *)

siguiente_SeDetiene(nombres, i) ==
    IF i > Len(nombres) \/ nombres[i] # Desconocido THEN i ELSE Len(nombres) + 1

RECURSIVE siguiente(_, _)
siguiente(nombres, i) ==
    IF i > Len(nombres) \/ nombres[i] # Desconocido THEN i
    ELSE siguiente(nombres, i + 1)

(* server.py 162-179: decode, detect, and go to the first face to act on *)
Recibir(p, hay_imagen, imagen) ==
    /\ peticiones[p].pc = "libre"
    /\ IF ~hay_imagen
       THEN /\ respuesta' = [op |-> "api_asistencia", estado |-> 400]
            /\ UNCHANGED peticiones
       ELSE LET rostros == detectar_rostros(personas_registradas, imagen)
                nombres == [i \in 1..Len(rostros) |-> rostros[i].nombre]
            IN  /\ peticiones' = [peticiones EXCEPT ![p] =
                       [Reposo EXCEPT !.pc = "bucle", !.nombres = nombres,
                                      !.i = siguiente(nombres, 1)]]
                /\ UNCHANGED respuesta
    /\ UNCHANGED <<reloj, usa_supabase, fallas>>
    /\ SinCambioLibro
    /\ SinCambioPersonas

(* server.py 181-183: verificar_puede_registrar for the next face *)
Verificar(p) ==
    LET h == peticiones[p]
    IN  /\ h.pc = "bucle"
        /\ h.i <= Len(h.nombres)
        /\ \E fl \in FallasLectura(usa_supabase, fallas) :
             LET nombre == h.nombres[h.i]
             IN  \E ultimo \in obtener_ultimo_registro(asistencias, nombre,
                                                       Fecha(reloj), fl) :
                   LET v == verificar_puede_registrar(usa_supabase, asistencia_cache,
                                ultimo, nombre, TiempoEsperaDefecto, reloj, reloj, reloj)
                   IN  /\ fallas' = IF fl THEN fallas + 1 ELSE fallas
                       /\ peticiones' = [peticiones EXCEPT ![p] =
                              IF v.puede
                              THEN [h EXCEPT !.pc = "registrar", !.tipo = v.tipo]
                              ELSE [h EXCEPT !.i = siguiente(h.nombres, h.i + 1)]]
        /\ UNCHANGED <<reloj, usa_supabase, respuesta>>
        /\ SinCambioLibro
        /\ SinCambioPersonas

(* asistencia_service.py 33-34: the date and the time of the new event *)
LeerReloj(p) ==
    LET h == peticiones[p]
    IN  /\ h.pc = "registrar"
        /\ peticiones' = [peticiones EXCEPT ![p] =
               [h EXCEPT !.pc = IF usa_supabase THEN "insertar" ELSE "50",
                         !.fecha = Fecha(reloj), !.hora = Hora(reloj)]]
        /\ UNCHANGED <<reloj, usa_supabase, fallas, respuesta>>
        /\ SinCambioLibro
        /\ SinCambioPersonas

resultado_de(h) ==
    [exito |-> TRUE, nombre |-> h.nombres[h.i], tipo |-> h.tipo,
     hora |-> h.hora, fecha |-> h.fecha]

(* back in the loop: the locals of registrar_asistencia are gone *)
registrado(h) ==
    [h EXCEPT !.pc = "bucle", !.i = siguiente(h.nombres, h.i + 1),
              !.tipo = Reposo.tipo, !.fecha = Reposo.fecha, !.hora = Reposo.hora,
              !.registros = Append(@, resultado_de(h))]

(* asistencia_service.py 36-47 with the hosted store *)
Insertar(p) ==
    LET h == peticiones[p]
    IN  /\ h.pc = "insertar"
        /\ \E fe \in Fallas(fallas) :
             /\ asistencias' = guardar_asistencia(asistencias, h.nombres[h.i], h.tipo,
                                                  h.fecha, h.hora, fe)
             /\ fallas' = IF fe THEN fallas + 1 ELSE fallas
        /\ peticiones' = [peticiones EXCEPT ![p] = registrado(h)]
        /\ UNCHANGED <<reloj, usa_supabase, asistencia_cache, archivo_asistencia,
                       respuesta>>
        /\ SinCambioPersonas

anexar_evento_SiAlterna(cache, fecha, nombre, tipo, hora) ==
    LET lista == cache[fecha][nombre]
    IN  IF lista # <<>> /\ lista[Len(lista)].tipo = tipo THEN cache
        ELSE Put(cache, fecha, Put(cache[fecha], nombre,
                                   Append(lista, [tipo |-> tipo, hora |-> hora])))

(* asistencia_service.py 54 *)
anexar_evento(cache, fecha, nombre, tipo, hora) ==
    Put(cache, fecha, Put(cache[fecha], nombre,
                          Append(cache[fecha][nombre], [tipo |-> tipo, hora |-> hora])))

(* _registrar_local, one line at a time; linea is the line about to run *)
RegistrarLocal(p, linea) ==
    LET h == peticiones[p]
        nombre == h.nombres[h.i]
        Sigue(pc) == peticiones' = [peticiones EXCEPT ![p] = [h EXCEPT !.pc = pc]]
    IN  /\ h.pc = linea
        /\ CASE linea = "50" ->
                 /\ Sigue(IF h.fecha \in DOMAIN asistencia_cache THEN "52" ELSE "51")
                 /\ UNCHANGED <<asistencia_cache, archivo_asistencia, fallas>>
             [] linea = "51" ->
                 /\ asistencia_cache' = Put(asistencia_cache, h.fecha, DictVacio)
                 /\ Sigue("52")
                 /\ UNCHANGED <<archivo_asistencia, fallas>>
             [] linea = "52" ->
                 /\ Sigue(IF nombre \in DOMAIN asistencia_cache[h.fecha] THEN "54"
                          ELSE "53")
                 /\ UNCHANGED <<asistencia_cache, archivo_asistencia, fallas>>
             [] linea = "53" ->
                 /\ asistencia_cache' =
                        Put(asistencia_cache, h.fecha,
                            Put(asistencia_cache[h.fecha], nombre, <<>>))
                 /\ Sigue("54")
                 /\ UNCHANGED <<archivo_asistencia, fallas>>
             [] linea = "54" ->
                 IF nombre \in DOMAIN asistencia_cache[h.fecha]
                 THEN /\ asistencia_cache' = anexar_evento(asistencia_cache, h.fecha,
                                                           nombre, h.tipo, h.hora)
                      /\ Sigue("55")
                      /\ UNCHANGED <<archivo_asistencia, fallas>>
                 ELSE /\ peticiones' = [peticiones EXCEPT ![p] =
                             [Reposo EXCEPT !.pc = "error"]]
                      /\ UNCHANGED <<asistencia_cache, archivo_asistencia, fallas>>
             [] linea = "55" ->
                 \E fe \in Fallas(fallas) :
                   /\ archivo_asistencia' = IF fe THEN archivo_asistencia
                                            ELSE asistencia_cache
                   /\ fallas' = IF fe THEN fallas + 1 ELSE fallas
                   /\ peticiones' = [peticiones EXCEPT ![p] =
                          IF fe THEN [Reposo EXCEPT !.pc = "error"]
                          ELSE registrado(h)]
                   /\ UNCHANGED asistencia_cache
        /\ UNCHANGED <<reloj, usa_supabase, asistencias, respuesta>>
        /\ SinCambioPersonas

LineasRegistrarLocal == {"50", "51", "52", "53", "54", "55"}

(* server.py 188-195 *)
Responder(p) ==
    LET h == peticiones[p]
    IN  /\ \/ h.pc = "bucle" /\ h.i > Len(h.nombres)
           \/ h.pc = "error"
        /\ respuesta' = IF h.pc = "error"
                        THEN [op |-> "api_asistencia", estado |-> 500]
                        ELSE [op |-> "api_asistencia", estado |-> 200,
                              registros |-> h.registros,
                              total_registrados |-> Len(h.registros)]
        /\ peticiones' = [peticiones EXCEPT ![p] = Reposo]
        /\ UNCHANGED <<reloj, usa_supabase, fallas>>
        /\ SinCambioLibro
        /\ SinCambioPersonas

InitConcurrente == InitCon(SubSeq(PersonasIniciales, 1, 1))

(* Each request of the concurrent runs shows at most one face *)
ImagenesUnRostro == {im \in ImagenesPrimerEje : Len(im) <= 1}

NextConcurrente ==
    \/ Tick(LimiteConcurrente)
    \/ \E p \in Hilos : Recibir(p, FALSE, <<>>)
    \/ \E p \in Hilos, imagen \in ImagenesUnRostro : Recibir(p, TRUE, imagen)
    \/ \E p \in Hilos : Verificar(p)
    \/ \E p \in Hilos : LeerReloj(p)
    \/ \E p \in Hilos : Insertar(p)
    \/ \E p \in Hilos, linea \in LineasRegistrarLocal : RegistrarLocal(p, linea)
    \/ \E p \in Hilos : Responder(p)

SpecConcurrente == InitConcurrente /\ [][NextConcurrente]_vars

(* Between the check and the append of the event it allowed *)
Ventana == {"registrar", "insertar", "50", "51", "52", "53", "54"}

(* C12: no lock covers the check-then-append of a request: while one        *)
(* thread stands between verificar_puede_registrar and the append of the    *)
(* event it allowed, the check of another thread can run, and the append,   *)
(* when it comes, is not checked again: it adds an event of the type fixed  *)
(* at check time, whatever the person's last event is by then.  So two      *)
(* requests for one person can both be allowed the same type and both       *)
(* append it, inside the debounce window (C12_Testigo).                     *)
C12_SinCandado ==
    [][\A p \in Hilos :
         LET h == peticiones[p]
         IN  /\ (h.pc = "bucle" /\ h.i <= Len(h.nombres)) => ENABLED Verificar(p)
             /\ (h.pc = "54" /\ peticiones'[p].pc = "55")
                  => asistencia_cache'[h.fecha][h.nombres[h.i]]
                     = Append(asistencia_cache[h.fecha][h.nombres[h.i]],
                              [tipo |-> h.tipo, hora |-> h.hora])
             /\ (h.pc = "insertar" /\ peticiones'[p].pc = "bucle" /\ fallas' = fallas)
                  => asistencias'
                     = Append(asistencias,
                              [persona_nombre |-> h.nombres[h.i], tipo |-> h.tipo,
                               fecha |-> h.fecha, hora |-> h.hora])]_vars

(* C12 happens: no store call has failed, the day has not changed, both     *)
(* threads have answered, and Ana's list of the day is two entradas with    *)
(* the same time of day.                                                    *)
C12_Testigo ==
    /\ ~usa_supabase
    /\ fallas = 0
    /\ \A p \in Hilos : peticiones[p] = Reposo
    /\ Fecha(reloj) = Fecha(Inicio)
    /\ EventosDe(Fecha(Inicio), "Ana")
       = << [tipo |-> "entrada", hora |-> Hora(Inicio)],
            [tipo |-> "entrada", hora |-> Hora(Inicio)] >>
    /\ archivo_asistencia = asistencia_cache
    /\ respuesta.op = "api_asistencia"
    /\ respuesta.estado = 200
    /\ respuesta.total_registrados = 1

-----------------------------------------------------------------------------
(* One request at a time, followed through the handler's loop: thread 1     *)
(* alone, two people registered, images of up to MaxRostros faces, all the  *)
(* requests arriving within the same second.                                *)

UnHilo == {1}

InitPorPasos == InitCon(PersonasIniciales)

NextPorPasos ==
    \/ \E p \in UnHilo : Recibir(p, FALSE, <<>>)
    \/ \E p \in UnHilo, imagen \in Imagenes : Recibir(p, TRUE, imagen)
    \/ \E p \in UnHilo : Verificar(p)
    \/ \E p \in UnHilo : LeerReloj(p)
    \/ \E p \in UnHilo : Insertar(p)
    \/ \E p \in UnHilo, linea \in LineasRegistrarLocal : RegistrarLocal(p, linea)
    \/ \E p \in UnHilo : Responder(p)

SpecPorPasos == InitPorPasos /\ [][NextPorPasos]_vars

TieneRegistro(h, nombre) ==
    \E r \in 1..Len(h.registros) : h.registros[r].nombre = nombre

(* C13: when the loop of a request is over (no store error has ended it),   *)
(* every face of the image that was recognised has been dealt with,         *)
(* wherever it stands among unknown or rejected faces: its event is in the  *)
(* request's 'registros', or the policy refused it, the person's last       *)
(* event of today being less than tiempo_espera seconds old.                *)
C13_TodosLosRostros ==
    \A p \in UnHilo :
      LET h == peticiones[p]
      IN  (h.pc = "bucle" /\ h.i > Len(h.nombres))
          => \A j \in 1..Len(h.nombres) :
               h.nombres[j] # Desconocido
               => \/ TieneRegistro(h, h.nombres[j])
                  \/ DentroDeEspera(h.nombres[j], Fecha(reloj), reloj,
                                    TiempoEsperaDefecto)

(* C13 happens: the image showed an unknown face and then Ana; the loop is  *)
(* over and Ana's entrada, the first event of the ledger, is recorded.      *)
C13_Testigo ==
    /\ peticiones[1].pc = "bucle"
    /\ peticiones[1].nombres = <<Desconocido, "Ana">>
    /\ peticiones[1].i = 3
    /\ peticiones[1].registros
       = << [exito |-> TRUE, nombre |-> "Ana", tipo |-> "entrada",
             hora |-> Hora(Inicio), fecha |-> Fecha(Inicio)] >>
    /\ EventosDe(Fecha(Inicio), "Ana") = << [tipo |-> "entrada", hora |-> Hora(Inicio)] >>
    /\ EventosDe(Fecha(Inicio), "Bob") = <<>>

-----------------------------------------------------------------------------
(* The attendance state of a person on a day, read off the ledger *)

Estado(eventos) ==
    IF eventos = <<>> THEN "NONE"
    ELSE IF eventos[Len(eventos)].tipo = "entrada" THEN "PRESENT" ELSE "ABSENT"

Transiciones ==
    { <<"NONE", "PRESENT">>, <<"PRESENT", "ABSENT">>, <<"ABSENT", "PRESENT">> }

(* C14: the attendance state is per (person, day): a request leaves the     *)
(* state of a (day, person) as it was, or stores one event for it that      *)
(* takes NONE to PRESENT, PRESENT to ABSENT or ABSENT to PRESENT (so the    *)
(* first event of a person under a new date is an entrada, whatever the     *)
(* earlier days hold); a request that records nothing leaves the ledger     *)
(* unchanged.                                                               *)
C14_EstadoPorPersonaYDia ==
    [][/\ \A f \in FechasModelo : \A n \in Nombres :
            LET antes == EventosDe(f, n)
                despues == EventosDe(f, n)'
            IN  \/ despues = antes
                \/ /\ Len(despues) = Len(antes) + 1
                   /\ <<Estado(antes), Estado(despues)>> \in Transiciones
       /\ ( /\ respuesta'.op = "api_asistencia"
            /\ respuesta'.estado = 200
            /\ respuesta'.registros = <<>> )
          => UNCHANGED <<asistencia_cache, archivo_asistencia, asistencias>>]_vars

-----------------------------------------------------------------------------
(* The elapsed time of the debounce guard *)

(* The records obtener_ultimo_registro or the local list can hand to        *)
(* _evaluar_registro when the read succeeds.                                *)
UltimosLeidos(nombre, fecha_hoy) ==
    IF usa_supabase THEN obtener_ultimo_registro(asistencias, nombre, fecha_hoy, FALSE)
    ELSE {UltimoLocal(asistencia_cache, nombre, fecha_hoy)}

Opuesto(tipo) == IF tipo = "entrada" THEN "salida" ELSE "entrada"

(* C15: when verificar_puede_registrar has read a prior event whose time of *)
(* day is later than the current time of day, the elapsed time it compares  *)
(* with tiempo_espera is 86400 minus the gap: the attempt is allowed, with  *)
(* the opposite type, exactly when 86400 - gap >= tiempo_espera, and        *)
(* rejected otherwise.                                                      *)
C15_TranscurridoModuloDia ==
    [][( /\ respuesta'.op = "verificar"
         /\ fallas' = fallas
         /\ VerificarPuedeRegistrar(respuesta'.nombre, respuesta'.tiempo_espera) )
       => \E ultimo \in UltimosLeidos(respuesta'.nombre, respuesta'.fecha_hoy) :
            (ultimo # Ninguno /\ ultimo.hora > Hora(respuesta'.ahora))
            => LET gap == ultimo.hora - Hora(respuesta'.ahora)
               IN  IF SegundosPorDia - gap >= respuesta'.tiempo_espera
                   THEN respuesta'.puede /\ respuesta'.tipo = Opuesto(ultimo.tipo)
                   ELSE ~respuesta'.puede /\ respuesta'.tipo = "None"]_vars

(* C15 happens: Ana's entrada is at 23:59:50; she is asked about with a     *)
(* 10 second tiempo_espera, the date is read before midnight and the time   *)
(* at 00:00:00, a gap of 86390 seconds: the attempt is allowed as a salida. *)
C15_Testigo ==
    /\ ~usa_supabase
    /\ respuesta.op = "verificar"
    /\ respuesta.nombre = "Ana"
    /\ respuesta.tiempo_espera = TiempoEsperaDefecto
    /\ respuesta.fecha_hoy = Fecha(Inicio)
    /\ Hora(respuesta.ahora) = 0
    /\ UltimoLocal(asistencia_cache, "Ana", Fecha(Inicio))
         = [tipo |-> "entrada", hora |-> SegundosPorDia - 10]
    /\ respuesta.puede
    /\ respuesta.tipo = "salida"

-----------------------------------------------------------------------------
(* A failed read of the last record *)

(* C16: in hosted mode, when the lookup of the person's last record fails   *)
(* while a face is evaluated, verificar_puede_registrar answers             *)
(* (True, "entrada") whatever events are stored: the request goes on to     *)
(* record an entrada.                                                       *)
C16_FallaDeLecturaEsEntrada ==
    [][\A p \in UnHilo :
         ( /\ peticiones[p].pc = "bucle"
           /\ peticiones'[p] # peticiones[p]
           /\ fallas' = fallas + 1 )
         => /\ usa_supabase
            /\ peticiones'[p].pc = "registrar"
            /\ peticiones'[p].tipo = "entrada"]_vars

(* C16 happens: one request shows Ana twice; the lookup fails for the       *)
(* second face and a second entrada is stored directly after the first, at  *)
(* the same second.                                                         *)
C16_Testigo ==
    /\ usa_supabase
    /\ fallas = 1
    /\ peticiones[1].pc = "bucle"
    /\ peticiones[1].nombres = <<"Ana", "Ana">>
    /\ peticiones[1].i = 3
    /\ asistencias = << [persona_nombre |-> "Ana", tipo |-> "entrada",
                         fecha |-> Fecha(Inicio), hora |-> Hora(Inicio)],
                        [persona_nombre |-> "Ana", tipo |-> "entrada",
                         fecha |-> Fecha(Inicio), hora |-> Hora(Inicio)] >>

====
